---- MODULE Spec2Model ----
(***************************************************************************)
(* Car Rental Feedback Analyzer: the Streamlit scripts app.py (interactive *)
(* and batch modes) and app-single.py (interactive only), as one state     *)
(* machine.  Text that the code trims or compares (model replies, the      *)
(* interactive input) is a sequence of one-character strings, so strip()   *)
(* and lower() are computed; review cells of the CSV are opaque values     *)
(* that only str() touches.                                                *)
(***************************************************************************)
EXTENDS Integers, Sequences, FiniteSets, TLC

\* ------------------------------------------------------------------ bounds
\* Largest number of rows of the uploaded CSV.
MaxReviews == 3

\* ------------------------------------------------------------ python text
Whitespace == {" ", "\n", "\t"}

UpperToLower ==
  [c \in {"A","B","C","D","E","F","G","H","I","J","K","L","M",
          "N","O","P","Q","R","S","T","U","V","W","X","Y","Z"} |->
     CASE c = "A" -> "a" [] c = "B" -> "b" [] c = "C" -> "c" [] c = "D" -> "d"
       [] c = "E" -> "e" [] c = "F" -> "f" [] c = "G" -> "g" [] c = "H" -> "h"
       [] c = "I" -> "i" [] c = "J" -> "j" [] c = "K" -> "k" [] c = "L" -> "l"
       [] c = "M" -> "m" [] c = "N" -> "n" [] c = "O" -> "o" [] c = "P" -> "p"
       [] c = "Q" -> "q" [] c = "R" -> "r" [] c = "S" -> "s" [] c = "T" -> "t"
       [] c = "U" -> "u" [] c = "V" -> "v" [] c = "W" -> "w" [] c = "X" -> "x"
       [] c = "Y" -> "y" [] c = "Z" -> "z"]

\* str.lower()
lower(s) ==
  [i \in 1..Len(s) |-> IF s[i] \in DOMAIN UpperToLower THEN UpperToLower[s[i]] ELSE s[i]]

RECURSIVE lstrip(_)
lstrip(s) ==
  IF s = <<>> THEN s
  ELSE IF Head(s) \in Whitespace THEN lstrip(Tail(s)) ELSE s

RECURSIVE rstrip(_)
rstrip(s) ==
  IF s = <<>> THEN s
  ELSE IF s[Len(s)] \in Whitespace THEN rstrip(SubSeq(s, 1, Len(s) - 1)) ELSE s

\* str.strip()
strip(s) == rstrip(lstrip(s))

\* The literals the code compares against or assigns.
negative == <<"n","e","g","a","t","i","v","e">>
positive == <<"p","o","s","i","t","i","v","e">>
Negative == <<"N","e","g","a","t","i","v","e">>
NA == <<"N","/","A">>
\* Python's None, in a position where a text may also stand.
None == <<"None">>

\* ------------------------------------------------------------- the inputs
\* Texts model.generate_text may return to the sentiment prompt.
SentimentReplies ==
  { Negative,
    <<" ","n","e","g","a","t","i","v","e","\n">>,
    <<"P","o","s","i","t","i","v","e">>,
    <<"N","e","u","t","r","a","l">>,
    <<"M","i","x","e","d">> }

\* Texts model.generate_text may return to the issue prompt.
IssueReplies ==
  { <<" ","C","a","r"," ","C","o","n","d","i","t","i","o","n","\n">>,
    <<"O","t","h","e","r">> }

\* Texts model.generate_text may return to the summary prompt; the second
\* starts with a bullet character that latin-1 cannot encode.
BULLET == "\\u2022"
SummaryReplies ==
  { <<"-"," ","o","k">>, <<BULLET," ","o","k">> }

\* Cells of the review column as pandas parsed them: a string, or the float
\* NaN of an empty cell.
Cells == { <<"str", "Waited an hour, car smelled bad.">>, <<"float", "NaN">> }

\* str(row[review_column])
pystr(cell) == IF cell[1] = "float" THEN "nan" ELSE cell[2]

\* Contents of the interactive text area.
ReviewInputs == { <<>>, <<" ","\n">>, <<"o","k">> }

RECURSIVE SeqsUpTo(_, _)
SeqsUpTo(S, n) ==
  IF n = 0 THEN {<<>>}
  ELSE LET shorter == SeqsUpTo(S, n - 1)
       IN  shorter \cup {Append(q, x) : q \in {p \in shorter : Len(p) = n - 1}, x \in S}

\* -------------------------------------------------------------- the state
VARIABLES
  script,                \* "app" (app.py) or "app-single" (app-single.py)
  app_mode,              \* the sidebar radio of app.py
  model,                 \* what initialize_model() returned: "Model" or "None"
  df,                    \* the review column of the uploaded CSV, in row order
  review_input,          \* the interactive text area
  pc,                    \* where the script run stands
  index,                 \* the batch loop's row label (0-based)
  predicted_sentiment,   \* locals of the classification in progress
  predicted_issue,
  results_list,
  results_df,
  progress_bar,          \* <<numerator, denominator>> of the fraction shown
  status_text,
  progress_log,          \* every value the progress bar was set to in the loop
  sentiment_counts,      \* label -> tenths of a percent
  negative_issue_counts, \* label -> tenths of a percent
  ai_summary_text,
  pdf_data,
  csv_output,
  ui,                    \* the elements the page shows
  error,                 \* the exception this run ended with, or "none"
  in_flight,             \* generate_text calls that have not returned
  call_log               \* every generate_text call of this run: <<kind, row label>>

vars == << script, app_mode, model, df, review_input, pc, index,
           predicted_sentiment, predicted_issue, results_list, results_df,
           progress_bar, status_text, progress_log, sentiment_counts,
           negative_issue_counts, ai_summary_text, pdf_data, csv_output, ui,
           error, in_flight, call_log >>

inputs == << script, app_mode, model, df, review_input >>

\* ----------------------------------------------------------------- pandas
NoFrame == [defined |-> FALSE, columns |-> {}, rows |-> <<>>]

\* pd.DataFrame(list of dicts): the columns are the dicts' keys, so an empty
\* list gives a frame without columns.
DataFrame(records) ==
  [defined |-> TRUE,
   columns |-> IF records = <<>> THEN {}
               ELSE {"Review", "Predicted_Sentiment", "Predicted_Issue"},
   rows    |-> records]

\* frame[column] raises KeyError when the frame has no such column.
HasColumn(frame, column) == column \in frame.columns

\* Series.value_counts(): label -> number of rows that carry it.
value_counts(rows, column) ==
  LET labels == {rows[i][column] : i \in DOMAIN rows}
  IN  [l \in labels |-> Cardinality({i \in DOMAIN rows : rows[i][column] = l})]

\* Variant: the percentage truncated to one decimal place.
RoundFloor(count, total) == (1000 * count) \div total

\* round(100 * count / total, 1) in tenths of a percent, ties to even as
\* numpy rounds.
Round1(count, total) ==
  LET q == (1000 * count) \div total
      r == (1000 * count) % total
  IN  IF 2 * r < total THEN q
      ELSE IF 2 * r > total THEN q + 1
      ELSE IF q % 2 = 0 THEN q ELSE q + 1

\* Series.value_counts(normalize=True).mul(100).round(1).to_dict()
normalized_counts(rows, column) ==
  LET counts == value_counts(rows, column)
  IN  [l \in DOMAIN counts |-> Round1(counts[l], Len(rows))]

\* results_df[results_df['Predicted_Sentiment'] == 'Negative']
NegativeRows(rows) ==
  SelectSeq(rows, LAMBDA r : r.Predicted_Sentiment = Negative)

\* Variant: each issue's count over the number of all rows.
IssueShareOfAll(rows) ==
  LET counts == value_counts(NegativeRows(rows), "Predicted_Issue")
  IN  [l \in DOMAIN counts |-> Round1(counts[l], Len(rows))]

\* negative_issue_counts of the batch page: the Negative rows' issues, each
\* count over the number of Negative rows.
IssueDistribution(rows) ==
  normalized_counts(NegativeRows(rows), "Predicted_Issue")

\* DataFrame.to_csv(index=False): the header line, then one line per row.
to_csv(frame) ==
  << IF frame.columns = {} THEN <<>>
     ELSE <<"Review", "Predicted_Sentiment", "Predicted_Issue">> >> \o
  [i \in DOMAIN frame.rows |->
     << frame.rows[i].Review, frame.rows[i].Predicted_Sentiment,
        frame.rows[i].Predicted_Issue >>]

\* ------------------------------------------------------------- the report
\* summary_text.encode('latin-1', 'replace').decode('latin-1')
latin1(s) == [i \in 1..Len(s) |-> IF s[i] = BULLET THEN "?" ELSE s[i]]

NoPdf == [defined |-> FALSE, total |-> 0, pie |-> <<>>, issue_chart |-> <<>>,
          no_negative_note |-> FALSE, insights |-> <<>>]

create_pdf_report(df_results, summary_text) ==
  LET negative_reviews == NegativeRows(df_results.rows)
  IN  [defined          |-> TRUE,
       total            |-> Len(df_results.rows),
       pie              |-> value_counts(df_results.rows, "Predicted_Sentiment"),
       issue_chart      |-> IF negative_reviews # <<>>
                            THEN value_counts(negative_reviews, "Predicted_Issue")
                            ELSE <<>>,
       no_negative_note |-> negative_reviews = <<>>,
       insights         |-> latin1(summary_text)]

\* ------------------------------------------------------------------- Init
NoStatus == [kind |-> "empty", done |-> 0, total |-> 0]

Init ==
  /\ script \in {"app", "app-single"}
  /\ app_mode \in IF script = "app" THEN {"Interactive", "Batch"} ELSE {"Interactive"}
  /\ model \in {"Model", "None"}
  /\ df \in IF app_mode = "Batch" THEN SeqsUpTo(Cells, MaxReviews) ELSE {<<>>}
  /\ review_input \in IF app_mode = "Interactive" THEN ReviewInputs ELSE {<<>>}
  /\ pc = "idle"
  /\ index = 0
  /\ predicted_sentiment = <<>>
  /\ predicted_issue = <<>>
  /\ results_list = <<>>
  /\ results_df = NoFrame
  /\ progress_bar = <<0, 1>>
  /\ status_text = NoStatus
  /\ progress_log = <<>>
  /\ sentiment_counts = <<>>
  /\ negative_issue_counts = <<>>
  /\ ai_summary_text = <<>>
  /\ pdf_data = NoPdf
  /\ csv_output = <<>>
  /\ ui = IF script = "app" /\ model = "None" THEN {"init_error"} ELSE {}
  /\ error = "none"
  /\ in_flight = 0
  /\ call_log = <<>>

\* A rerun of the script starts from a fresh page and fresh variables.
FreshRun ==
  /\ index' = 0
  /\ predicted_sentiment' = <<>>
  /\ predicted_issue' = <<>>
  /\ results_list' = <<>>
  /\ results_df' = NoFrame
  /\ progress_bar' = <<0, 1>>
  /\ status_text' = NoStatus
  /\ progress_log' = <<>>
  /\ sentiment_counts' = <<>>
  /\ negative_issue_counts' = <<>>
  /\ ai_summary_text' = <<>>
  /\ pdf_data' = NoPdf
  /\ csv_output' = <<>>
  /\ error' = "none"
  /\ in_flight' = 0
  /\ call_log' = <<>>

AtRest == pc \in {"idle", "done", "error"}

\* ------------------------------------------------------------ classifying
\* Variant: the branch test without lower().
IsNegativeExact(sentiment) == sentiment = Negative

\* The branch test of the classifier: predicted_sentiment.lower() == 'negative'
IsNegativeReply(sentiment) == lower(sentiment) = negative

\* The issue a review has before any issue query: "N/A" in app.py, None in
\* app-single.py.
Sentinel == IF script = "app" THEN NA ELSE None

\* model.generate_text(prompt=...) is entered.
Call(kind) ==
  /\ in_flight' = in_flight + 1
  /\ call_log' = Append(call_log, <<kind, index>>)

\* ------------------------------------------------------------- batch page
\* Variant: the CSV download offered together with the results table.
ShownAfterLoopWithCsv == {"results_table", "csv_button"}

\* What the page shows once the loop is over (st.dataframe(results_df)).
ShownAfterLoop == {"results_table"}

\* The two download buttons that follow the report.
DownloadButtons == {"csv_button", "pdf_button"}

\* Variant: a handler that also shows the rows classified so far.
OnExceptionKeepTable(shown) == shown \cup {"st.error", "results_table"}

\* except Exception as e: st.error(...)
OnException(shown) == shown \cup {"st.error"}

\* The batch run ends in the except handler.
Abort(kind) ==
  /\ pc' = "error"
  /\ error' = kind
  /\ ui' = OnException(ui)

\* Variant: the record inserted at the front of the list.
AppendFirst(list, rec) == <<rec>> \o list

\* results_list.append({...}) for the row at hand
AppendResult(list, rec) == Append(list, rec)

\* Variant: the fraction computed from the row label itself.
ProgressBehind(i, total) == <<i, total>>

\* progress = (index + 1) / len(df)
Progress(i, total) == <<i + 1, total>>

\* Lines 181-185: the row's record is appended and progress is shown; the
\* loop moves to the next row.
RecordRow(sentiment, issue) ==
  /\ results_list' = AppendResult(results_list,
                        [Review              |-> pystr(df[index + 1]),
                         Predicted_Sentiment |-> sentiment,
                         Predicted_Issue     |-> issue])
  /\ progress_bar' = Progress(index, Len(df))
  /\ progress_log' = Append(progress_log, Progress(index, Len(df)))
  /\ status_text' = [kind |-> "processing", done |-> index + 1, total |-> Len(df)]
  /\ index' = index + 1
  /\ pc' = "loop"
  /\ UNCHANGED << ui, error >>

\* The interactive pages show the sentiment, and the issue of a negative one.
Display(sentiment, issue) ==
  LET kind == IF lower(sentiment) = positive THEN {"st.success", "balloons"}
              ELSE IF lower(sentiment) = negative
                   THEN {"st.error"} \cup
                        IF script = "app" \/ issue \notin {None, <<>>}
                        THEN {"issue_info"} ELSE {}
                   ELSE {"st.warning"}
  IN  /\ ui' = kind \cup IF script = "app-single" THEN {"subheader"} ELSE {}
      /\ pc' = "done"
      /\ UNCHANGED << results_list, progress_bar, progress_log, status_text,
                      index, error >>

\* The classification of one review is complete.
Classified(sentiment, issue) ==
  IF app_mode = "Batch" THEN RecordRow(sentiment, issue)
  ELSE Display(sentiment, issue)

\* "Start Batch Analysis" is clicked (without a model the click does nothing).
StartBatchAnalysis ==
  /\ script = "app" /\ app_mode = "Batch" /\ model = "Model"
  /\ AtRest
  /\ FreshRun
  /\ pc' = "loop"
  /\ ui' = {}
  /\ UNCHANGED inputs

\* "Analyze Feedback" is clicked.
AnalyzeFeedback ==
  /\ app_mode = "Interactive"
  /\ AtRest
  /\ FreshRun
  /\ IF script = "app"
     THEN IF strip(review_input) # <<>> /\ model = "Model"
          THEN pc' = "classify" /\ ui' = {}
          ELSE pc' = "done" /\ ui' = IF model = "None" THEN {"init_error"} ELSE {}
     ELSE IF strip(review_input) = <<>>
          THEN pc' = "done" /\ ui' = {"enter_review_warning"}
          ELSE IF model = "Model"
               THEN pc' = "classify" /\ ui' = {}
               ELSE pc' = "done" /\ ui' = {"init_error"}
  /\ UNCHANGED inputs

\* for index, row in df.iterrows(): the next row's sentiment query is sent;
\* on the interactive pages, the one review's.
SentimentCall ==
  /\ \/ pc = "loop" /\ index < Len(df)
     \/ pc = "classify"
  /\ Call("sentiment")
  /\ pc' = "sentiment_wait"
  /\ UNCHANGED << inputs, index, predicted_sentiment, predicted_issue,
                  results_list, results_df, progress_bar, status_text,
                  progress_log, sentiment_counts, negative_issue_counts,
                  ai_summary_text, pdf_data, csv_output, ui, error >>

\* The sentiment query returns `reply`.
SentimentReply(reply) ==
  /\ pc = "sentiment_wait"
  /\ in_flight' = in_flight - 1
  /\ predicted_sentiment' = strip(reply)
  /\ predicted_issue' = Sentinel
  /\ IF IsNegativeReply(predicted_sentiment')
     THEN /\ pc' = "issue_prompt"
          /\ UNCHANGED << results_list, progress_bar, progress_log, status_text,
                          index, ui, error >>
     ELSE Classified(predicted_sentiment', predicted_issue')
  /\ UNCHANGED << inputs, results_df, sentiment_counts, negative_issue_counts,
                  ai_summary_text, pdf_data, csv_output, call_log >>

\* The issue query of a negative review is sent.
IssueCall ==
  /\ pc = "issue_prompt"
  /\ Call("issue")
  /\ pc' = "issue_wait"
  /\ UNCHANGED << inputs, index, predicted_sentiment, predicted_issue,
                  results_list, results_df, progress_bar, status_text,
                  progress_log, sentiment_counts, negative_issue_counts,
                  ai_summary_text, pdf_data, csv_output, ui, error >>

\* The issue query returns `reply`.
IssueReply(reply) ==
  /\ pc = "issue_wait"
  /\ in_flight' = in_flight - 1
  /\ predicted_issue' = strip(reply)
  /\ Classified(predicted_sentiment, predicted_issue')
  /\ UNCHANGED << inputs, predicted_sentiment, results_df, sentiment_counts,
                  negative_issue_counts, ai_summary_text, pdf_data, csv_output,
                  call_log >>

\* generate_text raises (authentication, network, quota): in the batch run
\* the except handler takes over, on the interactive pages the exception is
\* shown by the framework.
InferenceFails ==
  /\ pc \in {"sentiment_wait", "issue_wait", "summary_wait"}
  /\ in_flight' = in_flight - 1
  /\ IF app_mode = "Batch" THEN Abort("InferenceError")
     ELSE pc' = "error" /\ error' = "InferenceError" /\ ui' = {"exception"}
  /\ UNCHANGED << inputs, index, predicted_sentiment, predicted_issue,
                  results_list, results_df, progress_bar, status_text,
                  progress_log, sentiment_counts, negative_issue_counts,
                  ai_summary_text, pdf_data, csv_output, call_log >>

\* Lines 187-201: the loop is over; the results frame is built and shown,
\* the two distributions are computed and the summary query is sent.
\* Indexing a frame that has no column raises KeyError.
FinishLoop ==
  /\ pc = "loop" /\ index >= Len(df)
  /\ status_text' = [kind |-> "complete", done |-> index, total |-> Len(df)]
  /\ results_df' = DataFrame(results_list)
  /\ IF HasColumn(results_df', "Predicted_Sentiment")
     THEN /\ sentiment_counts' =
               normalized_counts(results_df'.rows, "Predicted_Sentiment")
          /\ negative_issue_counts' = IssueDistribution(results_df'.rows)
          /\ Call("summary")
          /\ ui' = ui \cup ShownAfterLoop
          /\ pc' = "summary_wait"
          /\ UNCHANGED error
     ELSE /\ pc' = "error"
          /\ error' = "KeyError"
          /\ ui' = OnException(ui \cup ShownAfterLoop)
          /\ UNCHANGED << sentiment_counts, negative_issue_counts, in_flight,
                          call_log >>
  /\ UNCHANGED << inputs, index, predicted_sentiment, predicted_issue,
                  results_list, progress_bar, progress_log, ai_summary_text,
                  pdf_data, csv_output >>

\* Lines 201-211: the summary query returns `reply`, the PDF is rendered and
\* the two download buttons are shown.
SummaryReply(reply) ==
  /\ pc = "summary_wait"
  /\ in_flight' = in_flight - 1
  /\ ai_summary_text' = reply
  /\ pdf_data' = create_pdf_report(results_df, reply)
  /\ csv_output' = to_csv(results_df)
  /\ ui' = ui \cup DownloadButtons
  /\ pc' = "done"
  /\ UNCHANGED << inputs, index, predicted_sentiment, predicted_issue,
                  results_list, results_df, progress_bar, status_text,
                  progress_log, sentiment_counts, negative_issue_counts, error,
                  call_log >>

\* The summary query returns `reply` and create_pdf_report raises while
\* rendering (a chart, an image, the output call).
RenderFails(reply) ==
  /\ pc = "summary_wait"
  /\ in_flight' = in_flight - 1
  /\ ai_summary_text' = reply
  /\ Abort("RenderError")
  /\ UNCHANGED << inputs, index, predicted_sentiment, predicted_issue,
                  results_list, results_df, progress_bar, status_text,
                  progress_log, sentiment_counts, negative_issue_counts,
                  pdf_data, csv_output, call_log >>

Next ==
  \/ StartBatchAnalysis
  \/ AnalyzeFeedback
  \/ SentimentCall
  \/ \E reply \in SentimentReplies : SentimentReply(reply)
  \/ IssueCall
  \/ \E reply \in IssueReplies : IssueReply(reply)
  \/ InferenceFails
  \/ FinishLoop
  \/ \E reply \in SummaryReplies : SummaryReply(reply)
  \/ \E reply \in SummaryReplies : RenderFails(reply)

Spec == Init /\ [][Next]_vars

\* ============================================================= properties
Range(f) == {f[x] : x \in DOMAIN f}

Abs(n) == IF n < 0 THEN -n ELSE n

RECURSIVE SumOver(_, _)
SumOver(f, keys) ==
  IF keys = {} THEN 0
  ELSE LET k == CHOOSE x \in keys : TRUE
       IN  f[k] + SumOver(f, keys \ {k})

Batch == script = "app" /\ app_mode = "Batch"

\* The batch run is past its loop with the results frame built.
Aggregated == Batch /\ results_df.defined /\ results_df.rows # <<>>

\* An issue query was sent for the row with label `row`.
IssueQueried(row) == <<"issue", row>> \in Range(call_log)

\* t is r without its leading and trailing whitespace.
IsTrimOf(t, r) ==
  /\ t = <<>> \/ (t[1] \notin Whitespace /\ t[Len(t)] \notin Whitespace)
  /\ \E i \in 1..(Len(r) + 1) :
       /\ i + Len(t) - 1 <= Len(r)
       /\ SubSeq(r, i, i + Len(t) - 1) = t
       /\ \A k \in 1..Len(r) : (k < i \/ k > i + Len(t) - 1) => r[k] \in Whitespace

\* v tenths of a percent is count/total rounded to one decimal place.
IsRounded(v, count, total) == 2 * Abs(v * total - 1000 * count) <= total

\* The rows whose classification is complete, read off the calls made.
SentimentCalls == Cardinality({k \in DOMAIN call_log : call_log[k][1] = "sentiment"})

Classifying ==
  \/ pc \in {"sentiment_wait", "issue_prompt", "issue_wait"}
  \/ /\ pc = "error" /\ error = "InferenceError"
     /\ call_log[Len(call_log)][1] # "summary"

NumClassified == SentimentCalls - IF Classifying THEN 1 ELSE 0

\* ---------------------------------------------------------------------- C1
\* C1: in a batch run the number of accumulated records always equals the
\* number of reviews already classified, record i carries the text of input
\* review i, and a run in which no inference call failed and that has left
\* its loop holds a result set of exactly N records in input order.
C1_OneRecordPerReview ==
  Batch =>
    /\ Len(results_list) = NumClassified
    /\ \A i \in DOMAIN results_list : results_list[i].Review = pystr(df[i])
    /\ (pc \in {"summary_wait", "done", "error"} /\ error # "InferenceError") =>
         /\ results_df.defined
         /\ Len(results_df.rows) = Len(df)
         /\ \A i \in DOMAIN df : results_df.rows[i].Review = pystr(df[i])

C1_Witness ==
  /\ Batch /\ pc = "done"
  /\ Len(df) >= 2 /\ df[1] # df[2]
  /\ Len(results_df.rows) = Len(df)

\* ---------------------------------------------------------------------- C2
\* One completed classification: sentiment, issue, whether the issue query
\* was sent, and the issue a review without a query must carry.
ClassifiedAsClaimed(sentiment, issue, queried, sentinel) ==
  /\ \E r \in SentimentReplies : IsTrimOf(sentiment, r)
  /\ queried <=> lower(sentiment) = negative
  /\ queried => \E r \in IssueReplies : IsTrimOf(issue, r)
  /\ ~queried => issue = sentinel

InteractiveResult == app_mode = "Interactive" /\ pc = "done" /\ call_log # <<>>

EveryResult(sentinel) ==
  /\ Batch =>
       \A i \in DOMAIN results_list :
         ClassifiedAsClaimed(results_list[i].Predicted_Sentiment,
                             results_list[i].Predicted_Issue,
                             IssueQueried(i - 1), sentinel)
  /\ InteractiveResult =>
       /\ ClassifiedAsClaimed(predicted_sentiment, predicted_issue,
                              IssueQueried(0), sentinel)
       /\ Cardinality(ui \cap {"st.success", "st.error", "st.warning"}) = 1
       /\ error = "none"

\* C2 as stated: every classification, in app.py and in app-single.py, has
\* its issue set to the trimmed reply of an issue query iff the sentiment is
\* negative in any letter case, and carries the issue "N/A" otherwise.
C2_SentinelIsNA == EveryResult(NA)

\* C2 as amended: the same, with the issue of a review that is not negative
\* being "N/A" in app.py and None (absent) in app-single.py.
C2_IssueIffNegative == EveryResult(IF script = "app" THEN NA ELSE None)

C2_Witness ==
  /\ script = "app-single" /\ InteractiveResult
  /\ predicted_sentiment = <<"M","i","x","e","d">>
  /\ predicted_issue = None
  /\ Len(call_log) = 1

\* ---------------------------------------------------------------------- C3
FailedAtRow ==
  /\ Batch /\ pc = "error" /\ error = "InferenceError"
  /\ call_log[Len(call_log)][1] # "summary"

\* C3: when inference fails while row k of a batch is classified, no call is
\* made for a later row, no summary call is made, nothing but the error is
\* shown, and no result set, results table, CSV or PDF exists.
C3_AbortDiscardsPartialResults ==
  FailedAtRow =>
    /\ \A k \in DOMAIN call_log :
         call_log[k][1] # "summary" /\ call_log[k][2] <= Len(results_list)
    /\ call_log[Len(call_log)][2] = Len(results_list)
    /\ in_flight = 0
    /\ ~ ENABLED (SentimentCall \/ IssueCall \/ FinishLoop)
    /\ ~ results_df.defined
    /\ ~ pdf_data.defined
    /\ csv_output = <<>>
    /\ ui = {"st.error"}

C3_Witness == FailedAtRow /\ Len(df) >= 3 /\ Len(results_list) = 2

\* ---------------------------------------------------------------------- C4
\* C4: a batch run over an empty review list ends without an error of its
\* own (only the service or the renderer may fail), and when it is done the
\* result set and both distributions are empty and the report states that
\* zero reviews were analyzed.
C4_EmptyBatchCompletes ==
  (Batch /\ df = <<>>) =>
    /\ error \in {"none", "InferenceError", "RenderError"}
    /\ pc = "done" =>
         /\ results_df.rows = <<>>
         /\ sentiment_counts = <<>>
         /\ negative_issue_counts = <<>>
         /\ pdf_data.defined /\ pdf_data.total = 0

\* ---------------------------------------------------------------------- C5
SentimentLabels == {results_df.rows[i].Predicted_Sentiment : i \in DOMAIN results_df.rows}

\* C5: for a non-empty result set the sentiment distribution has one entry
\* per distinct label observed, each the label's share of all records as a
\* percentage rounded to one decimal place, and the entries sum to 100
\* within 0.05 per distinct label.
C5_SentimentDistribution ==
  Aggregated =>
    /\ DOMAIN sentiment_counts = SentimentLabels
    /\ \A l \in SentimentLabels :
         IsRounded(sentiment_counts[l],
                   Cardinality({i \in DOMAIN results_df.rows :
                                  results_df.rows[i].Predicted_Sentiment = l}),
                   Len(results_df.rows))
    /\ 2 * Abs(SumOver(sentiment_counts, SentimentLabels) - 1000)
         <= Cardinality(SentimentLabels)

C5_Witness ==
  /\ Aggregated
  /\ Len(results_df.rows) = 3
  /\ 667 \in Range(sentiment_counts)
  /\ 333 \in Range(sentiment_counts)

\* ---------------------------------------------------------------------- C6
NegativeRecords ==
  {i \in DOMAIN results_df.rows : results_df.rows[i].Predicted_Sentiment = Negative}

NegativeIssues == {results_df.rows[i].Predicted_Issue : i \in NegativeRecords}

NegativeCount ==
  Cardinality({i \in DOMAIN results_list :
                 lower(results_list[i].Predicted_Sentiment) = negative})

\* The calls are in row order, a row's issue call right after its sentiment
\* call, and the summary call last.
CallsInOrder ==
  \A k \in DOMAIN call_log :
    /\ k = 1 => \/ call_log[k] = <<"sentiment", 0>>
                 \/ (df = <<>> /\ call_log[k] = <<"summary", 0>>)
    /\ k > 1 =>
         \/ /\ call_log[k][1] = "issue"
            /\ call_log[k - 1] = <<"sentiment", call_log[k][2]>>
         \/ /\ call_log[k][1] = "sentiment"
            /\ call_log[k][2] = call_log[k - 1][2] + 1
            /\ call_log[k - 1][1] \in {"sentiment", "issue"}
         \/ /\ call_log[k][1] = "summary"
            /\ k = Len(call_log)
            /\ call_log[k - 1][2] = Len(df) - 1
            /\ Len(results_list) = Len(df)

\* C7: the calls of a batch run are sequential and ordered (at most one in
\* flight, rows in order, the summary call after every review), and a run
\* over N reviews with M negatives in which no call failed makes N + M + 1
\* calls.
C7_SequentialCalls ==
  Batch =>
    /\ in_flight \in {0, 1}
    /\ CallsInOrder
    /\ (pc \in {"done", "error"} /\ error # "InferenceError") =>
         Len(call_log) = Len(df) + NegativeCount + 1

\* The part of C7 that the runs over at least one review satisfy.
C7_HoldsForNonEmpty ==
  Batch =>
    /\ in_flight \in {0, 1}
    /\ CallsInOrder
    /\ (pc \in {"done", "error"} /\ error # "InferenceError" /\ df # <<>>) =>
         Len(call_log) = Len(df) + NegativeCount + 1

\* ---------------------------------------------------------------------- C8
\* C8: progress is reported once per classified item, the k-th report being
\* k of N; the fraction shown is in (0, 1], strictly increasing, and 1
\* exactly on the last item.
C8_ProgressPerItem ==
  Batch =>
    /\ Len(progress_log) = Len(results_list)
    /\ \A k \in DOMAIN progress_log :
         /\ progress_log[k] = <<k, Len(df)>>
         /\ 0 < progress_log[k][1] /\ progress_log[k][1] <= progress_log[k][2]
         /\ (progress_log[k][1] = progress_log[k][2]) <=> (k = Len(df))
         /\ k > 1 => progress_log[k - 1][1] * progress_log[k][2]
                       < progress_log[k][1] * progress_log[k - 1][2]
    /\ progress_bar = IF progress_log = <<>> THEN <<0, 1>>
                      ELSE progress_log[Len(progress_log)]
    /\ status_text.kind = "processing" =>
         status_text.done = Len(results_list) /\ status_text.total = Len(df)

C8_Witness ==
  /\ Batch /\ pc = "done"
  /\ Len(df) = 3
  /\ progress_log = << <<1, 3>>, <<2, 3>>, <<3, 3>> >>

\* ---------------------------------------------------------------------- C9
IssueCalls == Cardinality({k \in DOMAIN call_log : call_log[k][1] = "issue"})

\* C9: a record takes part in the issue distribution and in the report's
\* negative-issue chart iff an issue query was made for it.
C9_ClassifierAndAggregatorAgree ==
  Aggregated =>
    /\ \A i \in DOMAIN results_df.rows :
         IssueQueried(i - 1) =>
           results_df.rows[i].Predicted_Issue \in DOMAIN negative_issue_counts
    /\ pdf_data.defined =>
         /\ SumOver(pdf_data.issue_chart, DOMAIN pdf_data.issue_chart) = IssueCalls
         /\ pdf_data.no_negative_note <=> IssueCalls = 0

\* --------------------------------------------------------------------- C10
ReportFailed ==
  /\ Batch /\ pc = "error"
  /\ \/ error = "RenderError"
     \/ error = "InferenceError" /\ call_log[Len(call_log)][1] = "summary"

\* C10: when the summary call or the rendering fails after every review was
\* classified, no report bytes exist and neither download is offered; the
\* CSV and the PDF are offered only when the report was generated.
C10_NoDownloadWithoutReport ==
  /\ ReportFailed =>
       /\ ~ pdf_data.defined
       /\ csv_output = <<>>
       /\ ui \cap DownloadButtons = {}
       /\ "st.error" \in ui
  /\ (ui \cap DownloadButtons # {} \/ csv_output # <<>>) =>
       /\ pc = "done" /\ error = "none"
       /\ pdf_data.defined
       /\ DownloadButtons \subseteq ui

C10_Witness ==
  /\ ReportFailed
  /\ error = "InferenceError"
  /\ Len(results_list) = Len(df) /\ Len(df) >= 2

====
